---- MODULE Spec2Model ----
(***************************************************************************)
(* Model of the snippet execution engine of the code executor plugin:      *)
(* CodeExecutorPlugin._execute_code_safely and its nested run_code         *)
(* (src/main.py).  Every invocation has a caller (a coroutine on the event *)
(* loop, awaiting asyncio.wait_for) and a worker (the thread started by    *)
(* asyncio.to_thread that runs run_code).  sys.stdout, sys.stderr and the  *)
(* output directory are process-wide and shared by all workers.            *)
(***************************************************************************)
EXTENDS Integers, Sequences, FiniteSets, TLC

\* ------------------------------------------------------------------ bounds
NumInv == 2          \* invocations of _execute_code_safely
MaxOps == 2          \* statements the snippets execute, all together
MaxFiles == 2        \* file paths in the result execute_python_code handles
MaxRequests == 2     \* HTTP requests the web dashboard answers

\* ------------------------------------------------- program constants
timeout_seconds == 90

Inv == 1..NumInv

SAVE_DIR == "outputs"                  \* self.file_output_dir
Surrogate == "S"                       \* a character UTF-8 cannot encode
Chars == {"a", Surrogate}              \* what a snippet may print
ErrChars == {"e"}                      \* what a snippet may write to stderr
InitialFiles == {"f0"}                 \* present in the directory at start
NewNames == {"f1", "f2"}               \* names a snippet may create

\* os.path.join(file_output_dir, f)
JoinPath(d, f) == <<d, f>>

\* a directory next to the output directory whose name begins with the
\* output directory's name
SiblingDir == "outputs_old"

\* os.path.realpath of a path without symbolic links, as the sequence of the
\* pieces of the string: the name "outputs_old" is "outputs" followed by
\* "_old"; the pieces of the common parent directory are left out
RealDir(d) == IF d = SiblingDir THEN <<SAVE_DIR, "_old">> ELSE <<d>>
RealPath(p) == RealDir(p[1]) \o <<"/", p[2]>>

\* str.startswith
StartsWith(p, d) == Len(p) >= Len(d) /\ SubSeq(p, 1, Len(d)) = d

\* optional libraries of libs_to_inject (lines 656-687), two of them: one
\* injected under an alias, one under its own name
Libs == {"numpy", "requests"}
Alias(l) == IF l = "numpy" THEN "np" ELSE l
\* names of the initial namespace (lines 617-624), two of them
BaseNames == {"SAVE_DIR", "FILES_TO_SEND"}
\* top-level names a snippet may bind: a fresh one, and one that is also
\* the alias of a library
BindableNames == {"x", "np"}
Names == BaseNames \cup {Alias(l) : l \in Libs} \cup BindableNames
Unbound == <<"unbound">>                \* the name is not in the dict

\* paths a snippet may append to FILES_TO_SEND: one inside the output
\* directory, one outside of it
AppendablePaths == {JoinPath(SAVE_DIR, "f1"), JoinPath("elsewhere", "x")}

\* ------------------------------------------------------- stream objects
RealStdout == <<"stdout", 0>>          \* the process's real sys.stdout
RealStderr == <<"stderr", 0>>          \* the process's real sys.stderr
OutBuf(i) == <<"output_buffer", i>>    \* io.StringIO() of invocation i
ErrBuf(i) == <<"error_buffer", i>>
Streams == {RealStdout, RealStderr} \cup {OutBuf(i) : i \in Inv}
             \cup {ErrBuf(i) : i \in Inv}

VARIABLES
  sys_stdout,      \* the object sys.stdout names
  sys_stderr,      \* the object sys.stderr names
  content,         \* text held by each stream: sequence of <<writer, char>>
  dir,             \* names present in the output directory
  cpc,             \* caller position: idle, awaiting, returned, timedout
  result,          \* what _execute_code_safely returned to the caller
  pre_stdout,      \* sys.stdout at the moment of the call (history)
  pre_stderr,      \* sys.stderr at the moment of the call (history)
  wpc,             \* worker position inside run_code
  old_stdout,      \* run_code local
  old_stderr,      \* run_code local
  files_before,    \* run_code local
  files_after,     \* run_code local
  files_to_send_explicitly,   \* run_code local, FILES_TO_SEND in the snippet
  nops,            \* statements the snippet has executed
  written,         \* chars the snippet wrote to standard output (history)
  wret,            \* value run_code returned
  outcome,         \* how the snippet ended: running, finished, raised (history)
  created,         \* names the snippet wrote into the directory (history)
  wexc,            \* exception that left run_code, "None" if none did
  exec_globals,    \* run_code local: the namespace the snippet executes in
  unavailable,     \* libraries whose import raises ImportError
  late             \* names the snippet wrote after its call timed out (history)

engineVars == <<sys_stdout, sys_stderr, content, dir, cpc, result, pre_stdout,
          pre_stderr, wpc, old_stdout, old_stderr, files_before, files_after,
          files_to_send_explicitly, nops, written, wret, outcome, created,
          wexc, exec_globals, unavailable, late>>

\* one invocation of execute_python_code (the llm tool handler)
VARIABLES
  event_role,                   \* event.role
  enable_local_route_sending,   \* self.enable_local_route_sending
  enable_webui,                 \* self.enable_webui
  enable_lagrange_adapter,      \* self.enable_lagrange_adapter
  hpc,             \* position inside execute_python_code
  hresult,         \* local result
  fidx,            \* index in result["file_paths"] of the loop's file_path
  success,         \* local success of the loop body
  hlog,            \* what the handler did so far, in order (history)
  hret             \* what the handler returned

handlerVars == <<event_role, enable_local_route_sending, enable_webui,
                 enable_lagrange_adapter, hpc, hresult, fidx, success, hlog,
                 hret>>

\* one CodeExecutorWebUI object (src/webui.py)
VARIABLES
  web_pc,               \* "new" before __init__ ran, "ready" after
  port,                 \* self.port
  file_output_dir,      \* self.file_output_dir
  enable_file_serving,  \* self.enable_file_serving
  routes,               \* the paths registered on self.app
  responses             \* the requests answered so far (history)

webVars == <<web_pc, port, file_output_dir, enable_file_serving, routes,
             responses>>

\* the plotting library of the process, matplotlib.pyplot (src/main.py
\* lines 626-654): its attributes and its figures belong to the process, not
\* to a call of run_code
VARIABLES
  has_matplotlib,  \* whether "import matplotlib" of line 627 succeeds
  plt_show,        \* what plt.show and plt.savefig name now
  original_show,   \* run_code's locals original_show, original_savefig
  figures,         \* pyplot's open figures with axes, by the invocation that
                   \* drew them; the last one is the current figure
  fig_saved,       \* <<owner, caller>>: a figure of owner was written to a
                   \* file by a call from caller's snippet (history)
  showed           \* invocations whose snippet called plt.show or plt.savefig

plotVars == <<has_matplotlib, plt_show, original_show, figures, fig_saved,
              showed>>

vars == <<engineVars, handlerVars, webVars, plotVars>>

callerVars == <<cpc, result, pre_stdout, pre_stderr>>
localVars == <<old_stdout, old_stderr, files_before, files_after>>
outerVars == <<unavailable, handlerVars, webVars>>
restVars == <<outerVars, plotVars>>

\* ------------------------------------------------------------ results
NoText == [present |-> FALSE, text |-> <<>>]          \* None
Text(t) == [present |-> TRUE, text |-> t]             \* a str
NoError == [kind |-> "None", arg |-> 0]               \* None
Traceback(n) == [kind |-> "traceback", arg |-> n]     \* traceback.format_exc()
TimeoutMessage(n) == [kind |-> "timeout", arg |-> n]  \* the f-string of line 788
NoResult == [success |-> FALSE, error |-> NoError, output |-> NoText,
             file_paths |-> <<>>]             \* nothing returned yet

Tagged(i, s) == [k \in DOMAIN s |-> <<i, s[k]>>]

\* text.encode('utf-8') raises UnicodeEncodeError
Unencodable(t) == \E k \in DOMAIN t : t[k][2] = Surrogate

IsEncodable(e) == e[2] # Surrogate

\* try: t.encode('utf-8') except UnicodeEncodeError:
\*     t = t.encode('utf-8', errors='ignore').decode('utf-8')
Clean(t) == IF Unencodable(t) THEN SelectSeq(t, IsEncodable) ELSE t

InSeq(x, s) == \E k \in DOMAIN s : s[k] = x

\* every listing order a set of names can come out in
Orders(S) == {o \in [1..Cardinality(S) -> S] :
                \A a, b \in 1..Cardinality(S) : a # b => o[a] # o[b]}

\* [os.path.join(file_output_dir, f) for f in newly_generated_filenames]
JoinAll(d, o) == [k \in DOMAIN o |-> JoinPath(d, o[k])]

\* the merge without its "if f not in all_files_to_send"
NotAlreadyInUnfiltered(explicit, generated) == generated

\* [f for f in newly_generated_files if f not in all_files_to_send]
NotAlreadyIn(explicit, generated) ==
  LET Keep(f) == ~InSeq(f, explicit) IN SelectSeq(generated, Keep)

\* the collection without the directory diff of its else branch
AllFilesToSendExplicitOnly(explicit, generated) ==
  IF explicit # <<>>
    THEN explicit \o NotAlreadyIn(explicit, generated)
    ELSE <<>>

\* lines 730-744: the explicit list first, then the directory diff
AllFilesToSend(explicit, generated) ==
  IF explicit # <<>>
    THEN explicit \o NotAlreadyIn(explicit, generated)
    ELSE generated

\* lines 755-758
SuccessResult(out, files) ==
  [success |-> TRUE, output |-> Text(Clean(out)), error |-> NoError,
   file_paths |-> files]

\* the failure result with its error left out
FailureResultNoError(out, n) ==
  [success |-> FALSE, error |-> NoError, output |-> Text(Clean(out)),
   file_paths |-> <<>>]

\* line 772
FailureResult(out, n) ==
  [success |-> FALSE, error |-> Traceback(n), output |-> Text(Clean(out)),
   file_paths |-> <<>>]

\* the timeout result with "output": "" in place of None
TimeoutResultEmptyOutput ==
  [success |-> FALSE, error |-> TimeoutMessage(timeout_seconds),
   output |-> Text(<<>>), file_paths |-> <<>>]

\* lines 788-789
TimeoutResult ==
  [success |-> FALSE, error |-> TimeoutMessage(timeout_seconds),
   output |-> NoText, file_paths |-> <<>>]

\* the injection loop giving up at the first library that fails to load
InjectedUntilFailure(unavail, n) ==
  IF unavail = {} /\ \E l \in Libs : Alias(l) = n
    THEN <<"module", CHOOSE l \in Libs : Alias(l) = n>>
    ELSE Unbound

\* lines 689-694: for lib_name, alias in libs_to_inject.items(), a library
\* whose __import__ raises ImportError is left out, the loop goes on
Injected(unavail, n) ==
  IF \E l \in Libs \ unavail : Alias(l) = n
    THEN <<"module", CHOOSE l \in Libs \ unavail : Alias(l) = n>>
    ELSE Unbound

\* a namespace kept between calls: the names earlier snippets bound stay
ExecGlobalsShared(unavail) ==
  [n \in Names |->
     IF \E j \in Inv : exec_globals[j][n][1] = "snippet"
       THEN exec_globals[CHOOSE j \in Inv : exec_globals[j][n][1] = "snippet"][n]
       ELSE IF n \in BaseNames THEN <<"setup", n>>
                               ELSE Injected(unavail, n)]

\* lines 617-624 and 689-694: the dict exec(code_to_run, exec_globals) gets,
\* built anew by every call
ExecGlobals(unavail) ==
  [n \in Names |-> IF n \in BaseNames THEN <<"setup", n>>
                                      ELSE Injected(unavail, n)]

\* ------------------------------------------------------------------ Init
\* execute_python_code has not been called
HandlerIdle ==
  /\ event_role = "admin"
  /\ enable_local_route_sending = FALSE
  /\ enable_webui = FALSE
  /\ enable_lagrange_adapter = FALSE
  /\ hpc = "start"
  /\ hresult = NoResult
  /\ fidx = 0
  /\ success = FALSE
  /\ hlog = <<>>
  /\ hret = "None"

\* no CodeExecutorWebUI is constructed (enable_webui is False, line 76)
WebIdle ==
  /\ web_pc = "new"
  /\ port = 22334
  /\ file_output_dir = "None"
  /\ enable_file_serving = FALSE
  /\ routes = {}
  /\ responses = <<>>

\* pyplot's own functions, and the pair of lambdas of lines 648-651 that
\* invocation i installs
OriginalShow == <<"original">>
Wrapper(i) == <<"wrapper", i>>

\* matplotlib is not installed: line 627 raises ImportError and line 653 skips
\* the whole block
PlotIdle ==
  /\ has_matplotlib = FALSE
  /\ plt_show = OriginalShow
  /\ original_show = [i \in Inv |-> OriginalShow]
  /\ figures = <<>>
  /\ fig_saved = {}
  /\ showed = {}

Init ==
  /\ sys_stdout = RealStdout
  /\ sys_stderr = RealStderr
  /\ content = [s \in Streams |-> <<>>]
  /\ dir = InitialFiles
  /\ cpc = [i \in Inv |-> "idle"]
  /\ result = [i \in Inv |-> NoResult]
  /\ pre_stdout = [i \in Inv |-> RealStdout]
  /\ pre_stderr = [i \in Inv |-> RealStderr]
  /\ wpc = [i \in Inv |-> "idle"]
  /\ old_stdout = [i \in Inv |-> RealStdout]
  /\ old_stderr = [i \in Inv |-> RealStderr]
  /\ files_before = [i \in Inv |-> {}]
  /\ files_after = [i \in Inv |-> {}]
  /\ files_to_send_explicitly = [i \in Inv |-> <<>>]
  /\ nops = [i \in Inv |-> 0]
  /\ written = [i \in Inv |-> <<>>]
  /\ wret = [i \in Inv |-> NoResult]
  /\ outcome = [i \in Inv |-> "running"]
  /\ created = [i \in Inv |-> {}]
  /\ wexc = [i \in Inv |-> "None"]
  /\ exec_globals = [i \in Inv |-> [n \in Names |-> Unbound]]
  /\ late = [i \in Inv |-> {}]
  /\ unavailable = {}
  /\ HandlerIdle
  /\ WebIdle
  /\ PlotIdle

\* ------------------------------------------------------------ the caller
\* lines 782-785: asyncio.wait_for(asyncio.to_thread(run_code, ...), timeout)
Call(i) ==
  /\ cpc[i] = "idle"
  /\ i > 1 => cpc[i - 1] # "idle"      \* invocations are numbered as called
  /\ cpc' = [cpc EXCEPT ![i] = "awaiting"]
  /\ wpc' = [wpc EXCEPT ![i] = "queued"]
  /\ pre_stdout' = [pre_stdout EXCEPT ![i] = sys_stdout]
  /\ pre_stderr' = [pre_stderr EXCEPT ![i] = sys_stderr]
  /\ UNCHANGED <<sys_stdout, sys_stderr, content, dir, result, localVars,
                 files_to_send_explicitly, nops, written, wret, outcome, created>>
  /\ UNCHANGED <<wexc, exec_globals, late, restVars>>

\* line 786: the worker finished before the timeout; the await hands over
\* what run_code returned, or raises what run_code raised (line 787 catches
\* asyncio.TimeoutError only)
AwaitReturn(i) ==
  /\ cpc[i] = "awaiting"
  /\ wpc[i] = "done"
  /\ cpc' = [cpc EXCEPT ![i] = IF wexc[i] = "None" THEN "returned"
                                                  ELSE "raised"]
  /\ result' = [result EXCEPT ![i] = IF wexc[i] = "None" THEN wret[i] ELSE @]
  /\ UNCHANGED <<sys_stdout, sys_stderr, content, dir, pre_stdout,
                 pre_stderr, wpc, localVars, files_to_send_explicitly,
                 nops, written, wret, outcome, created>>
  /\ UNCHANGED <<wexc, exec_globals, late, restVars>>

\* a timeout that also ends the worker
AwaitTimeoutStopsWorker(i) ==
  /\ cpc[i] = "awaiting"
  /\ wpc[i] # "done"
  /\ cpc' = [cpc EXCEPT ![i] = "timedout"]
  /\ result' = [result EXCEPT ![i] = TimeoutResult]
  /\ wpc' = [wpc EXCEPT ![i] = "done"]
  /\ UNCHANGED <<sys_stdout, sys_stderr, content, dir, pre_stdout,
                 pre_stderr, localVars, files_to_send_explicitly,
                 nops, written, wret, outcome, created>>
  /\ UNCHANGED <<wexc, exec_globals, late, restVars>>

\* lines 787-789: the timeout elapsed while the worker had not finished;
\* the worker thread is not stopped
AwaitTimeout(i) ==
  /\ cpc[i] = "awaiting"
  /\ wpc[i] # "done"
  /\ cpc' = [cpc EXCEPT ![i] = "timedout"]
  /\ result' = [result EXCEPT ![i] = TimeoutResult]
  /\ UNCHANGED <<sys_stdout, sys_stderr, content, dir, pre_stdout,
                 pre_stderr, wpc, localVars, files_to_send_explicitly,
                 nops, written, wret, outcome, created>>
  /\ UNCHANGED <<wexc, exec_globals, late, restVars>>

\* ------------------------------------------------------------ the worker
\* lines 608-612
RunCodeEnter(i) ==
  /\ wpc[i] = "queued"
  /\ old_stdout' = [old_stdout EXCEPT ![i] = sys_stdout]
  /\ old_stderr' = [old_stderr EXCEPT ![i] = sys_stderr]
  /\ files_to_send_explicitly' = [files_to_send_explicitly EXCEPT ![i] = <<>>]
  /\ files_before' = [files_before EXCEPT ![i] = dir]
  /\ UNCHANGED files_after
  /\ wpc' = [wpc EXCEPT ![i] = "entered"]
  /\ UNCHANGED <<sys_stdout, sys_stderr, content, dir, callerVars,
                 nops, written, wret, outcome, created>>
  /\ UNCHANGED <<wexc, exec_globals, late, restVars>>

\* line 612 raises: os.listdir(file_output_dir) fails (the directory cannot
\* be read, or went away after os.path.exists); the statement stands before
\* the try of line 614, so the OSError leaves run_code
RunCodeEnterFails(i) ==
  /\ wpc[i] = "queued"
  /\ old_stdout' = [old_stdout EXCEPT ![i] = sys_stdout]
  /\ old_stderr' = [old_stderr EXCEPT ![i] = sys_stderr]
  /\ files_to_send_explicitly' = [files_to_send_explicitly EXCEPT ![i] = <<>>]
  /\ wexc' = [wexc EXCEPT ![i] = "OSError"]
  /\ wpc' = [wpc EXCEPT ![i] = "done"]
  /\ UNCHANGED <<sys_stdout, sys_stderr, content, dir, callerVars,
                 files_before, files_after, nops, written, wret, outcome,
                 created>>
  /\ UNCHANGED <<exec_globals, late, restVars>>

\* lines 626-654: with matplotlib, remember what plt.show and plt.savefig
\* name now and put this call's wrappers in their place
PatchPlt(i) ==
  IF has_matplotlib
    THEN /\ original_show' = [original_show EXCEPT ![i] = plt_show]
         /\ plt_show' = Wrapper(i)
         /\ UNCHANGED <<has_matplotlib, figures, fig_saved, showed>>
    ELSE UNCHANGED plotVars

\* lines 723-728: close every open figure without saving it and put back
\* what line 632 remembered
CloseAndRestorePlt(i) ==
  IF has_matplotlib
    THEN /\ figures' = <<>>
         /\ plt_show' = original_show[i]
         /\ UNCHANGED <<has_matplotlib, original_show, fig_saved, showed>>
    ELSE UNCHANGED plotVars

\* lines 775-778: plt.close('all')
CloseAllPlt ==
  IF has_matplotlib
    THEN /\ figures' = <<>>
         /\ UNCHANGED <<has_matplotlib, plt_show, original_show, fig_saved,
                        showed>>
    ELSE UNCHANGED plotVars

\* line 615, and the namespace of lines 617-708
RunCodeRedirect(i) ==
  /\ wpc[i] = "entered"
  /\ sys_stdout' = OutBuf(i)
  /\ sys_stderr' = ErrBuf(i)
  /\ exec_globals' = [exec_globals EXCEPT ![i] = ExecGlobals(unavailable)]
  /\ PatchPlt(i)
  /\ wpc' = [wpc EXCEPT ![i] = "exec"]
  /\ UNCHANGED <<content, dir, callerVars, localVars,
                 files_to_send_explicitly, nops, written, wret, outcome, created>>
  /\ UNCHANGED <<wexc, late, outerVars>>

RECURSIVE Sum(_, _)
Sum(f, n) == IF n = 0 THEN 0 ELSE f[n] + Sum(f, n - 1)

CanStep(i) == wpc[i] = "exec" /\ Sum(nops, NumInv) < MaxOps

\* line 720, a statement print(c): written to whatever sys.stdout names now
SnippetPrint(i, c) ==
  /\ CanStep(i)
  /\ content' = [content EXCEPT ![sys_stdout] = Append(@, <<i, c>>)]
  /\ written' = [written EXCEPT ![i] = Append(@, c)]
  /\ nops' = [nops EXCEPT ![i] = @ + 1]
  /\ UNCHANGED <<sys_stdout, sys_stderr, dir, callerVars, wpc, localVars,
                 files_to_send_explicitly, wret, outcome, created>>
  /\ UNCHANGED <<wexc, exec_globals, late, restVars>>

\* line 720, a statement sys.stderr.write(c)
SnippetWriteErr(i, c) ==
  /\ CanStep(i)
  /\ content' = [content EXCEPT ![sys_stderr] = Append(@, <<i, c>>)]
  /\ nops' = [nops EXCEPT ![i] = @ + 1]
  /\ UNCHANGED <<sys_stdout, sys_stderr, dir, callerVars, wpc, localVars,
                 files_to_send_explicitly, written, wret, outcome, created>>
  /\ UNCHANGED <<wexc, exec_globals, late, restVars>>

\* line 720, a statement that writes a file named n into SAVE_DIR
SnippetCreateFile(i, n) ==
  /\ CanStep(i)
  /\ dir' = dir \cup {n}
  /\ created' = [created EXCEPT ![i] = @ \cup {n}]
  /\ late' = [late EXCEPT ![i] = IF cpc[i] = "timedout" THEN @ \cup {n} ELSE @]
  /\ nops' = [nops EXCEPT ![i] = @ + 1]
  /\ UNCHANGED <<sys_stdout, sys_stderr, content, callerVars, wpc,
                 localVars, files_to_send_explicitly, written, wret, outcome>>
  /\ UNCHANGED <<wexc, exec_globals, restVars>>

\* line 720, a statement FILES_TO_SEND.append(p)
SnippetAppend(i, p) ==
  /\ CanStep(i)
  /\ files_to_send_explicitly' =
       [files_to_send_explicitly EXCEPT ![i] = Append(@, p)]
  /\ nops' = [nops EXCEPT ![i] = @ + 1]
  /\ UNCHANGED <<sys_stdout, sys_stderr, content, dir, callerVars, wpc,
                 localVars, written, wret, outcome, created>>
  /\ UNCHANGED <<wexc, exec_globals, late, restVars>>

\* line 720, a top-level assignment x = ...: binds x in exec_globals
SnippetBind(i, x) ==
  /\ CanStep(i)
  /\ exec_globals' = [exec_globals EXCEPT ![i][x] = <<"snippet", i>>]
  /\ nops' = [nops EXCEPT ![i] = @ + 1]
  /\ UNCHANGED <<sys_stdout, sys_stderr, content, dir, callerVars, wpc,
                 localVars, files_to_send_explicitly, written, wret, outcome,
                 created>>
  /\ UNCHANGED <<wexc, late, restVars>>

\* line 720 raises a BaseException that is no Exception (sys.exit(), exit(),
\* raise SystemExit, KeyboardInterrupt): the except Exception of line 759
\* lets it pass, the finally runs and it leaves run_code
SnippetExit(i) ==
  /\ wpc[i] = "exec"
  /\ wexc' = [wexc EXCEPT ![i] = "SystemExit"]
  /\ wpc' = [wpc EXCEPT ![i] = "finally"]
  /\ outcome' = [outcome EXCEPT ![i] = "exited"]
  /\ UNCHANGED <<sys_stdout, sys_stderr, content, dir, callerVars,
                 localVars, files_to_send_explicitly, nops, written, wret,
                 created>>
  /\ UNCHANGED <<exec_globals, late, restVars>>

\* the except clause handing back the FILES_TO_SEND list of the failed run
RunCodeExceptKeepsFiles(i) ==
  /\ wpc[i] = "exec"
  /\ wret' = [wret EXCEPT ![i] =
               [FailureResult(content[OutBuf(i)], nops[i])
                  EXCEPT !.file_paths = files_to_send_explicitly[i]]]
  /\ wpc' = [wpc EXCEPT ![i] = "finally"]
  /\ outcome' = [outcome EXCEPT ![i] = "raised"]
  /\ \E listing \in BOOLEAN :
       IF listing THEN CloseAndRestorePlt(i) ELSE UNCHANGED plotVars
  /\ UNCHANGED <<sys_stdout, sys_stderr, content, dir, callerVars,
                 localVars, files_to_send_explicitly, nops, written,
                 created>>
  /\ UNCHANGED <<wexc, exec_globals, late, outerVars>>

\* the try block (lines 615-758) raises an Exception, at line 720 or at the
\* directory listing of lines 735/742; lines 759-772 build the failure result
RunCodeExcept(i) ==
  /\ wpc[i] = "exec"
  /\ wret' = [wret EXCEPT ![i] = FailureResult(content[OutBuf(i)], nops[i])]
  /\ wpc' = [wpc EXCEPT ![i] = "finally"]
  /\ outcome' = [outcome EXCEPT ![i] = "raised"]
  /\ \E listing \in BOOLEAN :     \* raised at line 735 or 742, not at 720
       IF listing THEN CloseAndRestorePlt(i) ELSE UNCHANGED plotVars
  /\ UNCHANGED <<sys_stdout, sys_stderr, content, dir, callerVars,
                 localVars, files_to_send_explicitly, nops, written,
                 created>>
  /\ UNCHANGED <<wexc, exec_globals, late, outerVars>>

\* the collection reporting every entry of the directory after the run
RunCodeCollectWholeDirectory(i) ==
  /\ wpc[i] = "exec"
  /\ files_after' = [files_after EXCEPT ![i] = dir]
  /\ \E o \in Orders(dir) :
       wret' = [wret EXCEPT ![i] =
                  SuccessResult(content[OutBuf(i)],
                    AllFilesToSend(files_to_send_explicitly[i],
                                   JoinAll(SAVE_DIR, o)))]
  /\ wpc' = [wpc EXCEPT ![i] = "finally"]
  /\ outcome' = [outcome EXCEPT ![i] = "finished"]
  /\ CloseAndRestorePlt(i)
  /\ UNCHANGED <<sys_stdout, sys_stderr, content, dir, callerVars,
                 old_stdout, old_stderr, files_before,
                 files_to_send_explicitly, nops, written, created>>
  /\ UNCHANGED <<wexc, exec_globals, late, outerVars>>

\* line 720 returns; lines 723-728 tidy pyplot; lines 730-758 build the
\* success result
RunCodeCollect(i) ==
  /\ wpc[i] = "exec"
  /\ files_after' = [files_after EXCEPT ![i] = dir]
  /\ \E o \in Orders(dir \ files_before[i]) :
       wret' = [wret EXCEPT ![i] =
                  SuccessResult(content[OutBuf(i)],
                    AllFilesToSend(files_to_send_explicitly[i],
                                   JoinAll(SAVE_DIR, o)))]
  /\ wpc' = [wpc EXCEPT ![i] = "finally"]
  /\ outcome' = [outcome EXCEPT ![i] = "finished"]
  /\ CloseAndRestorePlt(i)
  /\ UNCHANGED <<sys_stdout, sys_stderr, content, dir, callerVars,
                 old_stdout, old_stderr, files_before,
                 files_to_send_explicitly, nops, written, created>>
  /\ UNCHANGED <<wexc, exec_globals, late, outerVars>>

\* lines 773-778
RunCodeFinally(i) ==
  /\ wpc[i] = "finally"
  /\ sys_stdout' = old_stdout[i]
  /\ sys_stderr' = old_stderr[i]
  /\ CloseAllPlt
  /\ wpc' = [wpc EXCEPT ![i] = "done"]
  /\ UNCHANGED <<content, dir, callerVars, localVars,
                 files_to_send_explicitly, nops, written, wret, outcome, created>>
  /\ UNCHANGED <<wexc, exec_globals, late, outerVars>>

\* the file name of lines 639-640: the base name, a timestamp and the number
\* of entries of the output directory
PlotNames == <<"plot_1", "plot_2", "plot_3", "plot_4">>
PlotFile == PlotNames[Cardinality(dir)]

\* how many wrappers a call of w passes before pyplot's own function runs:
\* the original_savefig of a wrapper may be an earlier call's wrapper
RECURSIVE Depth(_)
Depth(w) == IF w = OriginalShow THEN 0 ELSE 1 + Depth(original_show[w[2]])

RECURSIVE Repeat(_, _)
Repeat(x, n) == IF n = 0 THEN <<>> ELSE <<x>> \o Repeat(x, n - 1)

\* line 720, a statement plt.plot(...) or plt.figure() with axes: pyplot
\* draws on the process's current figure, or opens one if there is none
SnippetFigure(i) ==
  /\ CanStep(i)
  /\ has_matplotlib
  /\ figures' = Append(figures, i)
  /\ nops' = [nops EXCEPT ![i] = @ + 1]
  /\ UNCHANGED <<has_matplotlib, plt_show, original_show, fig_saved, showed>>
  /\ UNCHANGED <<sys_stdout, sys_stderr, content, dir, callerVars, wpc,
                 localVars, files_to_send_explicitly, written, wret, outcome,
                 created>>
  /\ UNCHANGED <<wexc, exec_globals, late, outerVars>>

\* line 720, a statement plt.show() or plt.savefig(name): runs what the
\* attribute names now.  pyplot's own show does nothing with the Agg backend
\* of line 629.  A wrapper runs save_and_close_current_fig (lines 634-646):
\* plt.gcf() is the process's current figure; without one, a new empty figure
\* is closed again (lines 636-638); otherwise it is written to the output
\* directory (line 642) unless the save raises (line 644), a line is printed
\* by every wrapper on the way, and the figure is closed (line 646)
SnippetShow(i) ==
  /\ CanStep(i)
  /\ has_matplotlib
  /\ showed' = showed \cup {i}
  /\ nops' = [nops EXCEPT ![i] = @ + 1]
  /\ IF plt_show = OriginalShow \/ figures = <<>>
       THEN UNCHANGED <<content, written, dir, created, late, figures,
                        fig_saved>>
       ELSE /\ figures' = SubSeq(figures, 1, Len(figures) - 1)
            /\ content' = [content EXCEPT ![sys_stdout] =
                             @ \o Repeat(<<i, "a">>, Depth(plt_show))]
            /\ written' = [written EXCEPT ![i] =
                             @ \o Repeat("a", Depth(plt_show))]
            /\ \E saved \in BOOLEAN :
                 IF saved
                   THEN /\ dir' = dir \cup {PlotFile}
                        /\ created' = [created EXCEPT ![i] = @ \cup {PlotFile}]
                        /\ late' = [late EXCEPT ![i] =
                                     IF cpc[i] = "timedout"
                                       THEN @ \cup {PlotFile} ELSE @]
                        /\ fig_saved' = fig_saved
                                          \cup {<<figures[Len(figures)], i>>}
                   ELSE UNCHANGED <<dir, created, late, fig_saved>>
  /\ UNCHANGED <<has_matplotlib, plt_show, original_show>>
  /\ UNCHANGED <<sys_stdout, sys_stderr, callerVars, wpc, localVars,
                 files_to_send_explicitly, wret, outcome>>
  /\ UNCHANGED <<wexc, exec_globals, outerVars>>

Next ==
  \E i \in Inv :
    \/ Call(i)
    \/ AwaitReturn(i)
    \/ AwaitTimeout(i)
    \/ RunCodeEnter(i)
    \/ RunCodeEnterFails(i)
    \/ RunCodeRedirect(i)
    \/ \E c \in Chars : SnippetPrint(i, c)
    \/ \E c \in ErrChars : SnippetWriteErr(i, c)
    \/ \E n \in NewNames : SnippetCreateFile(i, n)
    \/ \E p \in AppendablePaths : SnippetAppend(i, p)
    \/ SnippetExit(i)
    \/ RunCodeCollect(i)
    \/ RunCodeExcept(i)
    \/ RunCodeFinally(i)

Spec == Init /\ [][Next]_vars

\* the event loop runs a ready callback: an awaiting caller is resumed, by
\* the worker's result or by the timer of wait_for; the worker thread itself
\* may run for ever
SpecLive == Spec /\ \A i \in Inv : WF_vars(AwaitReturn(i) \/ AwaitTimeout(i))

\* ------------------------------------------------- charting, in detail
\* the engine in a process where matplotlib is installed, with snippets made
\* of plotting statements
InitPlot ==
  /\ sys_stdout = RealStdout
  /\ sys_stderr = RealStderr
  /\ content = [s \in Streams |-> <<>>]
  /\ dir = InitialFiles
  /\ cpc = [i \in Inv |-> "idle"]
  /\ result = [i \in Inv |-> NoResult]
  /\ pre_stdout = [i \in Inv |-> RealStdout]
  /\ pre_stderr = [i \in Inv |-> RealStderr]
  /\ wpc = [i \in Inv |-> "idle"]
  /\ old_stdout = [i \in Inv |-> RealStdout]
  /\ old_stderr = [i \in Inv |-> RealStderr]
  /\ files_before = [i \in Inv |-> {}]
  /\ files_after = [i \in Inv |-> {}]
  /\ files_to_send_explicitly = [i \in Inv |-> <<>>]
  /\ nops = [i \in Inv |-> 0]
  /\ written = [i \in Inv |-> <<>>]
  /\ wret = [i \in Inv |-> NoResult]
  /\ outcome = [i \in Inv |-> "running"]
  /\ created = [i \in Inv |-> {}]
  /\ wexc = [i \in Inv |-> "None"]
  /\ exec_globals = [i \in Inv |-> [n \in Names |-> Unbound]]
  /\ late = [i \in Inv |-> {}]
  /\ unavailable = {}
  /\ HandlerIdle
  /\ WebIdle
  /\ has_matplotlib = TRUE
  /\ plt_show = OriginalShow
  /\ original_show = [i \in Inv |-> OriginalShow]
  /\ figures = <<>>
  /\ fig_saved = {}
  /\ showed = {}

NextPlot ==
  \E i \in Inv :
    \/ Call(i)
    \/ AwaitReturn(i)
    \/ AwaitTimeout(i)
    \/ RunCodeEnter(i)
    \/ RunCodeRedirect(i)
    \/ SnippetFigure(i)
    \/ SnippetShow(i)
    \/ RunCodeCollect(i)
    \/ RunCodeExcept(i)
    \/ RunCodeFinally(i)

SpecPlot == InitPlot /\ [][NextPlot]_vars

\* ------------------------------------------- namespace setup, in detail
\* the engine with the environment's missing libraries chosen freely and
\* snippets made of top-level assignments and FILES_TO_SEND.append
InitSetup ==
  /\ sys_stdout = RealStdout
  /\ sys_stderr = RealStderr
  /\ content = [s \in Streams |-> <<>>]
  /\ dir = InitialFiles
  /\ cpc = [i \in Inv |-> "idle"]
  /\ result = [i \in Inv |-> NoResult]
  /\ pre_stdout = [i \in Inv |-> RealStdout]
  /\ pre_stderr = [i \in Inv |-> RealStderr]
  /\ wpc = [i \in Inv |-> "idle"]
  /\ old_stdout = [i \in Inv |-> RealStdout]
  /\ old_stderr = [i \in Inv |-> RealStderr]
  /\ files_before = [i \in Inv |-> {}]
  /\ files_after = [i \in Inv |-> {}]
  /\ files_to_send_explicitly = [i \in Inv |-> <<>>]
  /\ nops = [i \in Inv |-> 0]
  /\ written = [i \in Inv |-> <<>>]
  /\ wret = [i \in Inv |-> NoResult]
  /\ outcome = [i \in Inv |-> "running"]
  /\ created = [i \in Inv |-> {}]
  /\ wexc = [i \in Inv |-> "None"]
  /\ exec_globals = [i \in Inv |-> [n \in Names |-> Unbound]]
  /\ late = [i \in Inv |-> {}]
  /\ unavailable \in SUBSET Libs
  /\ HandlerIdle
  /\ WebIdle
  /\ PlotIdle

NextSetup ==
  \E i \in Inv :
    \/ Call(i)
    \/ AwaitReturn(i)
    \/ AwaitTimeout(i)
    \/ RunCodeEnter(i)
    \/ RunCodeEnterFails(i)
    \/ RunCodeRedirect(i)
    \/ \E x \in BindableNames : SnippetBind(i, x)
    \/ \E p \in AppendablePaths : SnippetAppend(i, p)
    \/ SnippetExit(i)
    \/ RunCodeCollect(i)
    \/ RunCodeExcept(i)
    \/ RunCodeFinally(i)

SpecSetup == InitSetup /\ [][NextSetup]_vars

\* ------------------------------------------------- execute_python_code
\* One invocation of the handler, lines 398-604.  The engine is taken by
\* what it hands back: a result of one of the three shapes, or an exception.
\* Every await of event.send may raise (the chat platform is remote); the
\* helpers _send_file_via_local_route and _upload_file_via_lagrange catch
\* everything and answer True or False.
FilePaths == {JoinPath(SAVE_DIR, "f1"), JoinPath(SAVE_DIR, "f2"),
              JoinPath(SiblingDir, "x"), JoinPath("elsewhere", "x")}

\* the lists of at most MaxFiles paths
FileLists == UNION {[1..n -> FilePaths] : n \in 0..MaxFiles}

\* what _execute_code_safely can return
EngineResults ==
  {SuccessResult(<<>>, fl) : fl \in FileLists}
    \cup {FailureResult(<<>>, 0), TimeoutResult}

Entry(kind, what, k, ok, files) ==
  [kind |-> kind, what |-> what, k |-> k, ok |-> ok, files |-> files]

HandlerUnchanged == UNCHANGED <<engineVars, webVars, plotVars, event_role,
                                enable_local_route_sending, enable_webui,
                                enable_lagrange_adapter>>

\* the role test letting every role pass
IsAdminAnyRole(role) == TRUE

\* line 399
IsAdmin(role) == role = "admin"

\* lines 399-401: not an admin: one chat message, then the denial text
CheckRoleDenied ==
  /\ hpc = "start"
  /\ ~IsAdmin(event_role)
  /\ \E ok \in BOOLEAN :
       /\ hlog' = Append(hlog, Entry("send", "denied", 0, ok, <<>>))
       /\ hpc' = IF ok THEN "returned" ELSE "raised"
       /\ hret' = IF ok THEN "permission denied" ELSE hret
  /\ UNCHANGED <<hresult, fidx, success>>
  /\ HandlerUnchanged

\* lines 414-418: the await of _execute_code_safely hands back a result
ExecuteCode(r) ==
  /\ hpc = "start"
  /\ IsAdmin(event_role)
  /\ hlog' = Append(hlog, Entry("exec", "code", 0, TRUE, <<>>))
  /\ hresult' = r
  /\ hpc' = IF r.success THEN "text" ELSE "failed"
  /\ UNCHANGED <<fidx, success, hret>>
  /\ HandlerUnchanged

\* lines 414-415: the await of _execute_code_safely raises; an Exception
\* (the OSError of line 612) is caught on line 573, a SystemExit is not
ExecuteCodeRaises(e) ==
  /\ hpc = "start"
  /\ IsAdmin(event_role)
  /\ hlog' = Append(hlog, Entry("exec", e, 0, FALSE, <<>>))
  /\ hpc' = IF e = "OSError" THEN "except" ELSE "raised"
  /\ UNCHANGED <<hresult, fidx, success, hret>>
  /\ HandlerUnchanged

\* where the loop of line 448 goes after the file at index k
AfterFile(k) == IF k < Len(hresult.file_paths) THEN "file" ELSE "record"

\* lines 419-427 and 445-448: the text response, then the loop starts
SendTextResponse ==
  /\ hpc = "text"
  /\ \E ok \in BOOLEAN :
       /\ hlog' = Append(hlog, Entry("send", "text", 0, ok, <<>>))
       /\ hpc' = IF ok THEN AfterFile(0) ELSE "except"
       /\ fidx' = IF ok /\ AfterFile(0) = "file" THEN 1 ELSE fidx
  /\ UNCHANGED <<hresult, success, hret>>
  /\ HandlerUnchanged

\* lines 449-453: the path is no file: a skip notice, sent outside the try
\* of line 454, then continue
SkipMissingFile ==
  /\ hpc = "file"
  /\ \E ok \in BOOLEAN :
       /\ hlog' = Append(hlog, Entry("send", "skipped", fidx, ok, <<>>))
       /\ hpc' = IF ok THEN AfterFile(fidx) ELSE "except"
       /\ fidx' = IF ok /\ AfterFile(fidx) = "file" THEN fidx + 1 ELSE fidx
  /\ UNCHANGED <<hresult, success, hret>>
  /\ HandlerUnchanged

\* line 460
LocalRouteDue == enable_local_route_sending /\ enable_webui

\* lines 136-140 of _send_file_via_local_route: the "safety check" a path
\* must pass before its URL is sent
LocalRouteCheck(path) == StartsWith(RealPath(path), RealDir(SAVE_DIR))

\* lines 449, 454-467: the path is a file; success = False; the local route
\* is tried when it is configured: _send_file_via_local_route (lines
\* 125-164) answers False when its check fails or anything raises, and True
\* when the URL was sent
SendViaLocalRoute ==
  /\ hpc = "file"
  /\ IF LocalRouteDue
       THEN \E ok \in BOOLEAN :
              /\ ok => LocalRouteCheck(hresult.file_paths[fidx])
              /\ hlog' = Append(hlog, Entry("try", "local_route", fidx, ok, <<>>))
              /\ success' = ok
       ELSE /\ hlog' = hlog
            /\ success' = FALSE
  /\ hpc' = "lagrange"
  /\ UNCHANGED <<hresult, fidx, hret>>
  /\ HandlerUnchanged

\* line 470 with the success test left out
LagrangeDueAlways(s) == enable_lagrange_adapter

\* line 470
LagrangeDue(s) == ~s /\ enable_lagrange_adapter

\* lines 470-476
UploadViaLagrange ==
  /\ hpc = "lagrange"
  /\ IF LagrangeDue(success)
       THEN \E ok \in BOOLEAN :
              /\ hlog' = Append(hlog, Entry("try", "lagrange", fidx, ok, <<>>))
              /\ success' = ok
       ELSE UNCHANGED <<hlog, success>>
  /\ hpc' = "native"
  /\ UNCHANGED <<hresult, fidx, hret>>
  /\ HandlerUnchanged

\* lines 496-503: the base64 attempt is made when success is still False
WithBase64(lg, k, s, b) ==
  IF ~s THEN Append(lg, Entry("try", "base64", k, b, <<>>)) ELSE lg

\* lines 479-503: the native send when nothing succeeded yet; it sets
\* success = True or raises into the except of line 504; then the test of
\* line 496
SendNative ==
  /\ hpc = "native"
  /\ IF ~success
       THEN \E ok, b \in BOOLEAN :
              IF ok
                THEN /\ hlog' = WithBase64(
                                  Append(hlog, Entry("try", "native", fidx, TRUE, <<>>)),
                                  fidx, TRUE, b)
                     /\ success' = TRUE
                     /\ hpc' = AfterFile(fidx)
                     /\ fidx' = IF AfterFile(fidx) = "file" THEN fidx + 1 ELSE fidx
                ELSE /\ hlog' = Append(hlog, Entry("try", "native", fidx, FALSE, <<>>))
                     /\ hpc' = "report"
                     /\ UNCHANGED <<success, fidx>>
       ELSE \E b \in BOOLEAN :
              /\ hlog' = WithBase64(hlog, fidx, success, b)
              /\ hpc' = AfterFile(fidx)
              /\ fidx' = IF AfterFile(fidx) = "file" THEN fidx + 1 ELSE fidx
              /\ UNCHANGED success
  /\ UNCHANGED <<hresult, hret>>
  /\ HandlerUnchanged

\* lines 504-507: the failure of the file is reported by a chat message,
\* sent inside the except clause
ReportFileFailure ==
  /\ hpc = "report"
  /\ \E ok \in BOOLEAN :
       /\ hlog' = Append(hlog, Entry("send", "failed", fidx, ok, <<>>))
       /\ hpc' = IF ok THEN AfterFile(fidx) ELSE "except"
       /\ fidx' = IF ok /\ AfterFile(fidx) = "file" THEN fidx + 1 ELSE fidx
  /\ UNCHANGED <<hresult, success, hret>>
  /\ HandlerUnchanged

\* the record of the success branch without its own try: a failing
\* add_execution_record reaches the except of line 573
RecordSuccessUnprotected ==
  /\ hpc = "record"
  /\ \E ok \in BOOLEAN :
       /\ hlog' = Append(hlog, Entry("record", "True", 0, ok, hresult.file_paths))
       /\ hpc' = IF ok THEN "returned" ELSE "except"
       /\ hret' = IF ok THEN "llm_context" ELSE hret
  /\ UNCHANGED <<hresult, fidx, success>>
  /\ HandlerUnchanged

\* lines 516-537: add_execution_record(success=True, ...) in its own try,
\* then the return
RecordSuccess ==
  /\ hpc = "record"
  /\ \E ok \in BOOLEAN :
       hlog' = Append(hlog, Entry("record", "True", 0, ok, hresult.file_paths))
  /\ hpc' = "returned"
  /\ hret' = "llm_context"
  /\ UNCHANGED <<hresult, fidx, success>>
  /\ HandlerUnchanged

\* lines 540-552: the result is a failure: the error message is sent
SendErrorMsg ==
  /\ hpc = "failed"
  /\ \E ok \in BOOLEAN :
       /\ hlog' = Append(hlog, Entry("send", "error", 0, ok, <<>>))
       /\ hpc' = IF ok THEN "record_failure" ELSE "except"
  /\ UNCHANGED <<hresult, fidx, success, hret>>
  /\ HandlerUnchanged

\* lines 554-571: add_execution_record(success=False, file_paths=[]) in its
\* own try, then the return
RecordFailure ==
  /\ hpc = "record_failure"
  /\ \E ok \in BOOLEAN :
       hlog' = Append(hlog, Entry("record", "False", 0, ok, <<>>))
  /\ hpc' = "returned"
  /\ hret' = "error_msg"
  /\ UNCHANGED <<hresult, fidx, success>>
  /\ HandlerUnchanged

\* lines 573-585: the outer except sends the internal-error message, not
\* protected by any try
SendInternalError ==
  /\ hpc = "except"
  /\ \E ok \in BOOLEAN :
       /\ hlog' = Append(hlog, Entry("send", "internal", 0, ok, <<>>))
       /\ hpc' = IF ok THEN "record_internal" ELSE "raised"
  /\ UNCHANGED <<hresult, fidx, success, hret>>
  /\ HandlerUnchanged

\* lines 587-604: add_execution_record(success=False, output=None,
\* file_paths=[]) in its own try, then the return
RecordInternalError ==
  /\ hpc = "record_internal"
  /\ \E ok \in BOOLEAN :
       hlog' = Append(hlog, Entry("record", "False", 0, ok, <<>>))
  /\ hpc' = "returned"
  /\ hret' = "internal_error"
  /\ UNCHANGED <<hresult, fidx, success>>
  /\ HandlerUnchanged

InitHandler ==
  /\ sys_stdout = RealStdout
  /\ sys_stderr = RealStderr
  /\ content = [s \in Streams |-> <<>>]
  /\ dir = InitialFiles
  /\ cpc = [i \in Inv |-> "idle"]
  /\ result = [i \in Inv |-> NoResult]
  /\ pre_stdout = [i \in Inv |-> RealStdout]
  /\ pre_stderr = [i \in Inv |-> RealStderr]
  /\ wpc = [i \in Inv |-> "idle"]
  /\ old_stdout = [i \in Inv |-> RealStdout]
  /\ old_stderr = [i \in Inv |-> RealStderr]
  /\ files_before = [i \in Inv |-> {}]
  /\ files_after = [i \in Inv |-> {}]
  /\ files_to_send_explicitly = [i \in Inv |-> <<>>]
  /\ nops = [i \in Inv |-> 0]
  /\ written = [i \in Inv |-> <<>>]
  /\ wret = [i \in Inv |-> NoResult]
  /\ outcome = [i \in Inv |-> "running"]
  /\ created = [i \in Inv |-> {}]
  /\ wexc = [i \in Inv |-> "None"]
  /\ exec_globals = [i \in Inv |-> [n \in Names |-> Unbound]]
  /\ late = [i \in Inv |-> {}]
  /\ unavailable = {}
  /\ event_role \in {"admin", "member"}
  /\ enable_local_route_sending \in BOOLEAN
  /\ enable_webui \in BOOLEAN
  /\ enable_lagrange_adapter \in BOOLEAN
  /\ hpc = "start"
  /\ hresult = NoResult
  /\ fidx = 0
  /\ success = FALSE
  /\ hlog = <<>>
  /\ hret = "None"
  /\ WebIdle
  /\ PlotIdle

NextHandler ==
  \/ CheckRoleDenied
  \/ \E r \in EngineResults : ExecuteCode(r)
  \/ \E e \in {"OSError", "SystemExit"} : ExecuteCodeRaises(e)
  \/ SendTextResponse
  \/ SkipMissingFile
  \/ SendViaLocalRoute
  \/ UploadViaLagrange
  \/ SendNative
  \/ ReportFileFailure
  \/ RecordSuccess
  \/ SendErrorMsg
  \/ RecordFailure
  \/ SendInternalError
  \/ RecordInternalError

SpecHandler == InitHandler /\ [][NextHandler]_vars

\* ------------------------------------------ the handler with its engine
\* One invocation of execute_python_code together with the call of
\* _execute_code_safely it awaits on lines 414-415 (invocation 1 of the
\* engine), instead of a result chosen freely.

\* line 414: the admin's invocation reaches the await and the engine starts
HandlerCallsEngine ==
  /\ hpc = "start"
  /\ IsAdmin(event_role)
  /\ Call(1)

\* lines 414-418: the await hands back what the engine returned
HandlerResumes ==
  /\ cpc[1] \in {"returned", "timedout"}
  /\ ExecuteCode(result[1])

\* lines 414-415: the await raises what left the worker
HandlerResumesRaising ==
  /\ cpc[1] = "raised"
  /\ ExecuteCodeRaises(wexc[1])

NextE2E ==
  \/ CheckRoleDenied
  \/ HandlerCallsEngine
  \/ AwaitReturn(1)
  \/ AwaitTimeout(1)
  \/ RunCodeEnter(1)
  \/ RunCodeEnterFails(1)
  \/ RunCodeRedirect(1)
  \/ \E n \in NewNames : SnippetCreateFile(1, n)
  \/ \E p \in AppendablePaths : SnippetAppend(1, p)
  \/ SnippetExit(1)
  \/ RunCodeCollect(1)
  \/ RunCodeExcept(1)
  \/ RunCodeFinally(1)
  \/ HandlerResumes
  \/ HandlerResumesRaising
  \/ SendTextResponse
  \/ SkipMissingFile
  \/ SendViaLocalRoute
  \/ UploadViaLagrange
  \/ SendNative
  \/ ReportFileFailure
  \/ RecordSuccess
  \/ SendErrorMsg
  \/ RecordFailure
  \/ SendInternalError
  \/ RecordInternalError

SpecE2E == InitHandler /\ [][NextE2E]_vars

\* ------------------------------------------------------ the web dashboard
\* CodeExecutorWebUI of src/webui.py: the constructor and the dispatch of
\* GET requests to the endpoints setup_routes registered.
Ports == {22334, 22335}        \* the default of line 17, the one of the test
\* file_output_dir as passed: not passed (None), empty, a directory
OutputDirs == {"None", "", SAVE_DIR}

BaseRoutes == {"/", "/api/history", "/api/detail/{record_id}",
               "/api/statistics"}
FilesRoute == "/files/{file_name}"

\* truth value of a str-or-None
Truthy(d) == d \notin {"None", ""}

\* setup_routes with the file route registered in every configuration
SetupRoutesAlwaysFiles(serving, d) == BaseRoutes \cup {FilesRoute}

\* lines 26-101: the decorators that run inside setup_routes
SetupRoutes(serving, d) ==
  BaseRoutes \cup (IF serving /\ Truthy(d) THEN {FilesRoute} ELSE {})

\* lines 17-24
WebUIInit ==
  /\ web_pc = "new"
  /\ routes' = SetupRoutes(enable_file_serving, file_output_dir)
  /\ web_pc' = "ready"
  /\ UNCHANGED <<port, file_output_dir, enable_file_serving, responses>>
  /\ UNCHANGED <<engineVars, handlerVars, plotVars>>

\* the names a request may give: whether the joined path is an existing
\* regular file (line 87), and its real path (line 91); "link" and "peer"
\* are symbolic links in the output directory, to a file elsewhere and to a
\* file of the sibling directory
RequestableFiles ==
  {[name |-> "f0", isfile |-> TRUE, real |-> RealPath(JoinPath(SAVE_DIR, "f0"))],
   [name |-> "nothing", isfile |-> FALSE,
    real |-> RealPath(JoinPath(SAVE_DIR, "nothing"))],
   [name |-> "link", isfile |-> TRUE,
    real |-> RealPath(JoinPath("elsewhere", "x"))],
   [name |-> "peer", isfile |-> TRUE,
    real |-> RealPath(JoinPath(SiblingDir, "x"))]}

\* lines 83-101: the status serve_file answers with
ServeFileStatus(f) ==
  IF ~f.isfile THEN 404
  ELSE IF ~StartsWith(f.real, RealDir(file_output_dir)) THEN 403
  ELSE 200

\* the statuses an endpoint of lines 29-78 can answer with; the database
\* call inside may fail (500), get_detail may find nothing (404)
EndpointStatuses(route) ==
  CASE route = "/" -> {200}
    [] route = "/api/detail/{record_id}" -> {200, 404, 500}
    [] OTHER -> {200, 500}

\* a GET whose path matches the template route
Request(route) ==
  /\ web_pc = "ready"
  /\ Len(responses) < MaxRequests
  /\ IF route \in routes
       THEN \E st \in EndpointStatuses(route) :
              responses' = Append(responses, <<route, "", st>>)
       ELSE responses' = Append(responses, <<route, "", 404>>)
  /\ UNCHANGED <<web_pc, port, file_output_dir, enable_file_serving, routes>>
  /\ UNCHANGED <<engineVars, handlerVars, plotVars>>

\* a GET of /files/<name>
RequestFile(f) ==
  /\ web_pc = "ready"
  /\ Len(responses) < MaxRequests
  /\ responses' = Append(responses,
       <<FilesRoute, f.name,
         IF FilesRoute \in routes THEN ServeFileStatus(f) ELSE 404>>)
  /\ UNCHANGED <<web_pc, port, file_output_dir, enable_file_serving, routes>>
  /\ UNCHANGED <<engineVars, handlerVars, plotVars>>

InitWebUI ==
  /\ sys_stdout = RealStdout
  /\ sys_stderr = RealStderr
  /\ content = [s \in Streams |-> <<>>]
  /\ dir = InitialFiles
  /\ cpc = [i \in Inv |-> "idle"]
  /\ result = [i \in Inv |-> NoResult]
  /\ pre_stdout = [i \in Inv |-> RealStdout]
  /\ pre_stderr = [i \in Inv |-> RealStderr]
  /\ wpc = [i \in Inv |-> "idle"]
  /\ old_stdout = [i \in Inv |-> RealStdout]
  /\ old_stderr = [i \in Inv |-> RealStderr]
  /\ files_before = [i \in Inv |-> {}]
  /\ files_after = [i \in Inv |-> {}]
  /\ files_to_send_explicitly = [i \in Inv |-> <<>>]
  /\ nops = [i \in Inv |-> 0]
  /\ written = [i \in Inv |-> <<>>]
  /\ wret = [i \in Inv |-> NoResult]
  /\ outcome = [i \in Inv |-> "running"]
  /\ created = [i \in Inv |-> {}]
  /\ wexc = [i \in Inv |-> "None"]
  /\ exec_globals = [i \in Inv |-> [n \in Names |-> Unbound]]
  /\ late = [i \in Inv |-> {}]
  /\ unavailable = {}
  /\ HandlerIdle
  /\ PlotIdle
  /\ web_pc = "new"
  /\ port \in Ports
  /\ file_output_dir \in OutputDirs
  /\ enable_file_serving \in BOOLEAN
  /\ routes = {}
  /\ responses = <<>>

NextWebUI ==
  \/ WebUIInit
  \/ \E route \in BaseRoutes \cup {"/missing"} : Request(route)
  \/ \E f \in RequestableFiles : RequestFile(f)

SpecWebUI == InitWebUI /\ [][NextWebUI]_vars

\* ---------------------------------------------------------------- claims
Untag(t) == [k \in DOMAIN t |-> t[k][2]]
Range(s) == {s[k] : k \in DOMAIN s}
Count(x, s) == Cardinality({k \in DOMAIN s : s[k] = x})
Encodable(w) == \A k \in DOMAIN w : w[k] # Surrogate
Returned(i) == cpc[i] \in {"returned", "timedout"}

\* C1: a snippet that writes text to standard output and terminates normally
\* within the timeout gets success=True, error=None and an output equal to
\* exactly the text it wrote (stated here for text UTF-8 can encode).
C1_ExactOutputOnSuccess ==
  \A i \in Inv :
    (cpc[i] = "returned" /\ outcome[i] = "finished" /\ Encodable(written[i]))
      => /\ result[i].success
         /\ result[i].error = NoError
         /\ result[i].output.present
         /\ Untag(result[i].output.text) = written[i]

\* C2: a snippet that raises partway through gets success=False, a non-empty
\* error text and an output equal to exactly the text it wrote before the
\* raise (stated here for text UTF-8 can encode).
C2_PartialOutputOnRaise ==
  \A i \in Inv :
    (cpc[i] = "returned" /\ outcome[i] = "raised" /\ Encodable(written[i]))
      => /\ ~result[i].success
         /\ result[i].error.kind # "None"
         /\ result[i].output.present
         /\ Untag(result[i].output.text) = written[i]

\* C4: at the step at which a call of _execute_code_safely returns to its
\* caller (success, snippet exception or timeout), sys.stdout and sys.stderr
\* are the objects they were when that call was made.
C4_StreamsRestoredAtReturn ==
  [][\A i \in Inv :
       (cpc[i] = "awaiting" /\ cpc'[i] \in {"returned", "timedout"})
         => (sys_stdout' = pre_stdout[i] /\ sys_stderr' = pre_stderr[i])]_vars

\* C5: whatever a snippet writes to standard output or standard error goes
\* into the buffers of its own invocation and never to the real streams.
C5_WritesStayInOwnBuffers ==
  /\ content[RealStdout] = <<>>
  /\ content[RealStderr] = <<>>
  /\ \A j \in Inv :
       /\ \A k \in DOMAIN content[OutBuf(j)] : content[OutBuf(j)][k][1] = j
       /\ \A k \in DOMAIN content[ErrBuf(j)] : content[ErrBuf(j)][k][1] = j

\* C6: overlapping invocations share no stream state: the output run_code
\* returned for an invocation holds all the text its own snippet printed
\* and no text another invocation's snippet printed.
C6_NoForeignOutput ==
  \A i \in Inv :
    cpc[i] = "returned"
      => /\ \A k \in DOMAIN result[i].output.text :
              result[i].output.text[k][1] = i
         /\ Encodable(written[i])
              => result[i].output.text = Tagged(i, written[i])

\* C3: an invocation whose snippet is still running when the timeout elapses
\* returns to its caller, whether or not the worker ever stops, and what it
\* returns is success=False, an error naming the timeout and timeout_seconds,
\* output None and no file paths.
C3_TimeoutReturns ==
  /\ [](\A i \in Inv :
          cpc[i] = "timedout"
            => result[i] = [success |-> FALSE,
                            error |-> [kind |-> "timeout",
                                       arg |-> timeout_seconds],
                            output |-> [present |-> FALSE, text |-> <<>>],
                            file_paths |-> <<>>])
  /\ \A i \in Inv :
       (cpc[i] = "awaiting" /\ wpc[i] # "done") ~> (cpc[i] # "awaiting")

\* the caller holds the timeout result while its snippet is still executing
C3_Witness ==
  \E i \in Inv :
    /\ cpc[i] = "timedout"
    /\ wpc[i] = "exec"
    /\ nops[i] > 0
    /\ result[i].error.kind = "timeout"

\* C7: every path a snippet appended to FILES_TO_SEND is exactly once in the
\* file_paths of its result (stated here for snippets that ended normally
\* and whose result run_code returned).
C7_ExplicitPathOnce ==
  \A i \in Inv :
    (cpc[i] = "returned" /\ outcome[i] = "finished")
      => \A p \in Range(files_to_send_explicitly[i]) :
           Count(p, result[i].file_paths) = 1

\* names snippet i created that the directory did not hold when its run began
NewlyCreated(i) == created[i] \ files_before[i]

DiffPaths(i) == {JoinPath(SAVE_DIR, n) : n \in files_after[i] \ files_before[i]}

\* C9: the file_paths of a successful result hold the final FILES_TO_SEND
\* entries and the newly present files and nothing else; the FILES_TO_SEND
\* entries come first, in the order appended, and every later entry was
\* found by the directory diff only.
C9_FilePathsUnionInOrder ==
  \A i \in Inv :
    (cpc[i] = "returned" /\ result[i].success)
      => LET fp == result[i].file_paths
             ex == files_to_send_explicitly[i]
         IN /\ Range(fp) = Range(ex) \cup DiffPaths(i)
            /\ Len(fp) >= Len(ex)
            /\ SubSeq(fp, 1, Len(ex)) = ex
            /\ \A k \in (Len(ex) + 1)..Len(fp) :
                 /\ fp[k] \in DiffPaths(i) \ Range(ex)
                 /\ Count(fp[k], fp) = 1

\* a successful result that holds an appended path followed by a path the
\* directory diff alone found
C9_Witness ==
  \E i \in Inv :
    /\ cpc[i] = "returned"
    /\ result[i].success
    /\ files_to_send_explicitly[i] # <<>>
    /\ DiffPaths(i) \ Range(files_to_send_explicitly[i]) # {}
    /\ Len(result[i].file_paths) > Len(files_to_send_explicitly[i])

\* C10 as stated: in every returned result the error is set exactly when
\* success is False, and the output is a string, never None.
C10_ErrorIffFailureOutputPresent ==
  \A i \in Inv :
    Returned(i)
      => /\ (result[i].error # NoError) <=> ~result[i].success
         /\ result[i].output.present

\* C10 amended: the error is set exactly when success is False; the output
\* is a string in every result run_code produced and None in the timeout
\* result.
C10_ErrorIffFailureOutputUnlessTimeout ==
  \A i \in Inv :
    Returned(i)
      => /\ (result[i].error # NoError) <=> ~result[i].success
         /\ result[i].output.present <=> (cpc[i] = "returned")

\* one invocation returned a snippet failure, another a timeout
C10_Witness ==
  \E i, j \in Inv :
    /\ cpc[i] = "returned" /\ outcome[i] = "raised"
    /\ result[i].output.text # <<>>
    /\ cpc[j] = "timedout"

\* C11: _execute_code_safely never raises to its caller: every call that is
\* over has handed back a result, and when the snippet or the setup failed
\* (an exception of any kind, an interpreter-exit request, a failing listing
\* of the output directory) that result has success=False.
C11_NeverRaises ==
  \A i \in Inv :
    /\ cpc[i] # "raised"
    /\ (Returned(i) /\ outcome[i] # "finished") => ~result[i].success

\* C12: no top-level name a snippet bound is in the namespace of another
\* invocation; when a snippet starts, its namespace is the freshly built
\* one and its FILES_TO_SEND is empty.
C12_FreshNamespace ==
  \A i, j \in Inv :
    /\ \A n \in Names : exec_globals[j][n] = <<"snippet", i>> => i = j
    /\ (wpc[j] = "exec" /\ nops[j] = 0)
         => /\ files_to_send_explicitly[j] = <<>>
            /\ \A n \in BindableNames : exec_globals[j][n][1] # "snippet"

\* the first snippet bound x and appended to FILES_TO_SEND and its call
\* returned; the second snippet is about to start and sees neither
C12_Witness ==
  \E i, j \in Inv :
    /\ i # j
    /\ cpc[i] = "returned"
    /\ exec_globals[i]["x"] = <<"snippet", i>>
    /\ files_to_send_explicitly[i] # <<>>
    /\ wpc[j] = "exec" /\ nops[j] = 0
    /\ exec_globals[j]["x"] = Unbound
    /\ files_to_send_explicitly[j] = <<>>

C18_TimeoutLeavesWorkerRunning ==
  /\ [][\A i \in Inv :
          (cpc[i] = "awaiting" /\ cpc'[i] = "timedout")
            => (wpc'[i] = wpc[i] /\ wpc'[i] # "done")]_vars
  /\ [](\A i \in Inv :
          cpc[i] = "timedout"
            => /\ wpc[i] = "queued" => ENABLED RunCodeEnter(i)
               /\ wpc[i] = "entered" => ENABLED RunCodeRedirect(i)
               /\ wpc[i] = "exec" => ENABLED RunCodeCollect(i)
               /\ wpc[i] = "finally" => ENABLED RunCodeFinally(i))

\* after its call timed out the snippet wrote a file into the directory,
\* and then the finally restored the streams
C18_Witness ==
  \E i \in Inv :
    /\ cpc[i] = "timedout"
    /\ result[i] = TimeoutResult
    /\ late[i] # {}
    /\ late[i] \subseteq dir
    /\ wpc[i] = "done"
    /\ sys_stdout = old_stdout[i]


\* ---- claims about execute_python_code
HandlerOver == hpc \in {"returned", "raised"}
LogOf(kind) == {a \in DOMAIN hlog : hlog[a].kind = kind}
\* the handler did something about the file at index k of file_paths
Processed(k) == \E a \in DOMAIN hlog : hlog[a].k = k
\* the delivery loop was entered: the text response of line 427 was sent
LoopEntered == \E a \in DOMAIN hlog : hlog[a] = Entry("send", "text", 0, TRUE, <<>>)
Rank(m) == CASE m = "local_route" -> 1 [] m = "lagrange" -> 2
             [] m = "native" -> 3 [] OTHER -> 4

\* C14: once the success path has reached the delivery loop and the handler
\* is over, every path of file_paths was processed (a delivery attempt or a
\* skip notice), in list order, and every file whose native delivery failed
\* has its failure report; no missing file and no failed delivery keeps the
\* later files from being processed.
C14_EveryFileProcessed ==
  (HandlerOver /\ LoopEntered)
    => /\ \A k \in 1..Len(hresult.file_paths) : Processed(k)
       /\ \A a, b \in DOMAIN hlog :
            (a < b /\ hlog[a].k > 0 /\ hlog[b].k > 0) => hlog[a].k <= hlog[b].k
       /\ \A a \in LogOf("try") :
            (hlog[a].what = "native" /\ ~hlog[a].ok)
              => \E b \in LogOf("send") :
                   b > a /\ hlog[b].what = "failed" /\ hlog[b].k = hlog[a].k

\* what a denied invocation must not have done: run the snippet, try to
\* deliver a file, call add_execution_record
NothingExecuted ==
  LogOf("exec") = {} /\ LogOf("try") = {} /\ LogOf("record") = {}

\* C15 as stated: an invocation whose event.role is not "admin" never
\* executes the snippet, sends no file, writes no execution record, and when
\* it is over it has returned the permission-denied text.
C15_NonAdminDenied ==
  event_role # "admin"
    => /\ NothingExecuted
       /\ HandlerOver => hret = "permission denied"

\* C15 amended: an invocation whose event.role is not "admin" never executes
\* the snippet, sends no file and writes no execution record; it returns the
\* permission-denied text when the denial message could be sent, and raises
\* the exception of event.send when it could not.
C15_NonAdminNeverExecutes ==
  event_role # "admin"
    => /\ NothingExecuted
       /\ hpc = "returned" => hret = "permission denied"
       /\ hpc = "raised" => hlog = <<Entry("send", "denied", 0, FALSE, <<>>)>>
       /\ hpc \in {"start", "returned", "raised"}

C15_Witness ==
  /\ event_role = "member"
  /\ hpc = "returned"
  /\ hret = "permission denied"
  /\ hlog = <<Entry("send", "denied", 0, TRUE, <<>>)>>

\* C16: an admin invocation that returned a value has called
\* add_execution_record exactly once, whatever the outcome and whatever
\* sends, deliveries or database writes failed on the way.
C16_OneRecordPerReturn ==
  (event_role = "admin" /\ hpc = "returned")
    => Cardinality(LogOf("record")) = 1

\* a successful result whose file could not be delivered nor reported: the
\* handler returned through the outer except, with one record call
C16_Witness ==
  /\ event_role = "admin"
  /\ hpc = "returned"
  /\ hret = "internal_error"
  /\ hresult.success
  /\ \E a \in LogOf("try") : ~hlog[a].ok
  /\ \E a \in LogOf("send") : hlog[a].what = "failed" /\ ~hlog[a].ok
  /\ Cardinality(LogOf("record")) = 1

\* C19: for every file the methods are tried in the order local route,
\* Lagrange, native; the local route only when enable_local_route_sending
\* and enable_webui are set, Lagrange only when enable_lagrange_adapter is
\* set; a method is tried only when every earlier attempt for the file
\* failed, so at most one succeeds and none is tried after a success.
C19_MethodOrder ==
  \A a \in LogOf("try") :
    /\ hlog[a].what = "local_route"
         => (enable_local_route_sending /\ enable_webui)
    /\ hlog[a].what = "lagrange" => enable_lagrange_adapter
    /\ \A b \in LogOf("try") :
         (a < b /\ hlog[a].k = hlog[b].k)
           => (Rank(hlog[a].what) < Rank(hlog[b].what) /\ ~hlog[a].ok)

\* one file went through all three methods: local route failed, Lagrange
\* failed, native succeeded
C19_Witness ==
  \E a \in DOMAIN hlog :
    /\ a + 2 \in DOMAIN hlog
    /\ hlog[a] = Entry("try", "local_route", 1, FALSE, <<>>)
    /\ hlog[a + 1] = Entry("try", "lagrange", 1, FALSE, <<>>)
    /\ hlog[a + 2] = Entry("try", "native", 1, TRUE, <<>>)

\* C20: when the native method (the last of the three) has failed for a
\* file, the next thing the handler does is the base64 attempt for that
\* file, and a file is reported as failed only after a failed base64
\* attempt for it.
C20_Base64LastFallback ==
  /\ \A a \in LogOf("try") :
       (hlog[a].what = "native" /\ ~hlog[a].ok /\ a < Len(hlog))
         => hlog[a + 1] = Entry("try", "base64", hlog[a].k, hlog[a + 1].ok, <<>>)
  /\ \A a \in LogOf("send") :
       hlog[a].what = "failed"
         => \E b \in LogOf("try") :
              b < a /\ hlog[b] = Entry("try", "base64", hlog[a].k, FALSE, <<>>)

\* C17: a constructed CodeExecutorWebUI has the routes "/", "/api/history",
\* "/api/detail/{record_id}" and "/api/statistics" in every configuration,
\* and the route "/files/{file_name}" exactly when enable_file_serving is
\* true and file_output_dir is set; it has no other route.
C17_RoutesRegistered ==
  web_pc = "ready"
    => /\ {"/", "/api/history", "/api/detail/{record_id}", "/api/statistics"}
            \subseteq routes
       /\ "/files/{file_name}" \in routes
            <=> (enable_file_serving /\ file_output_dir \notin {"None", ""})
       /\ routes \subseteq {"/", "/api/history", "/api/detail/{record_id}",
                            "/api/statistics", "/files/{file_name}"}

\* the dashboard of the test (port 22335, no directory, no file serving)
\* answered "/" and turned a file request down
C17_Witness ==
  /\ web_pc = "ready"
  /\ port = 22335
  /\ file_output_dir = "None"
  /\ ~enable_file_serving
  /\ responses = << <<"/", "", 200>>, <<"/files/{file_name}", "f0", 404>> >>

\* C23: once every worker that was started has ended, whatever the
\* interleaving of their starts and ends was, sys.stdout and sys.stderr are
\* the real process streams again.
C23_StreamsRealWhenAllEnded ==
  (\A i \in Inv : wpc[i] \in {"idle", "done"})
    => (sys_stdout = RealStdout /\ sys_stderr = RealStderr)

\* C26: a file that was in the output directory when the run began is in
\* the file_paths of the result only if the snippet appended its path to
\* FILES_TO_SEND, also when the snippet wrote it again; every other entry
\* of file_paths names a file absent before the run and present after it.
C26_ExistingFileNotInDiff ==
  \A i \in Inv :
    cpc[i] = "returned"
      => /\ \A n \in files_before[i] :
              InSeq(JoinPath(SAVE_DIR, n), result[i].file_paths)
                => InSeq(JoinPath(SAVE_DIR, n), files_to_send_explicitly[i])
         /\ \A p \in Range(result[i].file_paths) :
              \/ InSeq(p, files_to_send_explicitly[i])
              \/ \E n \in files_after[i] \ files_before[i] :
                   p = JoinPath(SAVE_DIR, n)

\* a snippet wrote again a file that was there when its run began, ended
\* normally, and the result does not list the file
C26_Witness ==
  \E i \in Inv :
    /\ cpc[i] = "returned"
    /\ result[i].success
    /\ \E n \in created[i] \cap files_before[i] :
         ~InSeq(JoinPath(SAVE_DIR, n), result[i].file_paths)

\* C27: every call of add_execution_record an invocation makes carries the
\* success flag of the result _execute_code_safely returned for it.
C27_RecordFlagIsResultFlag ==
  \A a \in LogOf("record") :
    hresult # NoResult => ((hlog[a].what = "True") <=> hresult.success)

\* C24: when a run_code call ends, by success or by a snippet exception,
\* plt.show and plt.savefig are again what they were when the call began
\* (what its line 632 remembered), so that no wrapper persists or stacks
C24_ShowRestoredAtEnd ==
  [][\A i \in Inv :
       (wpc[i] = "finally" /\ wpc'[i] = "done"
          /\ outcome[i] \in {"finished", "raised"})
         => plt_show' = original_show[i]]_vars

\* C22: when a run_code call ends, by success or by a snippet exception, no
\* figure is open, and a figure whose snippet never called show or savefig
\* has not been written to a file
C22_LeftoverFiguresClosedUnsaved ==
  /\ \A i \in Inv :
       (wpc[i] = "done" /\ outcome[i] \in {"finished", "raised"}
          /\ \A j \in Inv : wpc[j] \in {"idle", "entered", "done"})
         => figures = <<>>
  /\ \A fs \in fig_saved : fs[1] \in showed

\* a real path lies in the directory d: below it, behind a separator
InsideDir(p, d) == StartsWith(p, d) /\ Len(p) > Len(d) /\ p[Len(d) + 1] = "/"
\* the real path of the entry a request of /files/<name> names
RealOfName(name) == (CHOOSE f \in RequestableFiles : f.name = name).real

\* C21: a file whose real path lies outside the output directory is never
\* sent by _send_file_via_local_route and never served with status 200 by
\* "/files/{file_name}", a file of a sibling directory whose name starts
\* with the output directory's name included.
C21_OutsideNeverSentOrServed ==
  /\ \A a \in LogOf("try") :
       (hlog[a].what = "local_route" /\ hlog[a].ok)
         => InsideDir(RealPath(hresult.file_paths[hlog[a].k]), RealDir(SAVE_DIR))
  /\ \A r \in DOMAIN responses :
       (responses[r][1] = FilesRoute /\ responses[r][3] = 200)
         => InsideDir(RealOfName(responses[r][2]), RealDir(file_output_dir))

\* C25: when the snippet raises, the result has no file_paths, the handler
\* does nothing about any file and the history record's file list is empty,
\* whatever the snippet created or appended to FILES_TO_SEND before.
C25_NoFilesWhenSnippetRaises ==
  (outcome[1] = "raised" /\ cpc[1] = "returned")
    => /\ result[1].file_paths = <<>>
       /\ \A a \in DOMAIN hlog : hlog[a].k = 0 /\ hlog[a].files = <<>>

\* a snippet created a file in the output directory, appended a path to
\* FILES_TO_SEND and raised; its invocation recorded the failure and returned
C25_Witness ==
  /\ outcome[1] = "raised"
  /\ cpc[1] = "returned"
  /\ created[1] # {}
  /\ files_to_send_explicitly[1] # <<>>
  /\ hpc = "returned"
  /\ LogOf("record") # {}

====
